---- MODULE Spec2Model ----
(***************************************************************************)
(* Admission-decision core of orzkratos/authkratos: route scopes, the      *)
(* periodic match function (matchkratosperiod / passkratoseveryn) with its *)
(* concurrent counter store, and the random match function                 *)
(* (matchkratosrandom).                                                    *)
(*                                                                         *)
(* A process holds one match function, built by NewMatchFunc from one      *)
(* Config.  Callers are the goroutines of in-flight requests; each call of *)
(* the periodic match function is split at its accesses to shared memory:  *)
(* the map's LoadOrStore, mutex.Lock, the critical section, mutex.Unlock.  *)
(***************************************************************************)
EXTENDS Integers, Sequences, FiniteSets, TLC

\* ---------------------------------------------------------------- bounds
NumCallers == 2
MaxCalls == 5
MaxPeriod == 3
MaxOpposite == 2
MaxWrites == 2
MaxRequests == 2

Callers == 1..NumCallers
Operations == {"a/b/c", "x/y/z"}

\* the operations scopes are asked about: one more than any constructor gets
Queries == Operations \cup {"a/b/d"}

\* the operations a client adds to or deletes from an exported OperationSet:
\* one the constructors may have stored, one they never store
WriteOps == {"a/b/c", "a/b/d"}

\* float64 values are modelled in tenths: 3 stands for 0.3
Draws == {0, 3, 9}
Rates == {-5, 0, 3, 10, 15}

Nil == 0

\* ------------------------------------------------------------ route scope
INCLUDE == "INCLUDE"
EXCLUDE == "EXCLUDE"

\* SelectSide("INVALID"): SelectSide is a string type, any string converts
INVALID == "INVALID"

Range(s) == {s[i] : i \in DOMAIN s}

\* utils.NewSet: every element of the slice becomes a key with value true
NewSetSkipsFirst(slice) == [k \in {slice[i] : i \in 2..Len(slice)} |-> TRUE]

NewSetKeepsLast(slice) ==
    [k \in {slice[i] : i \in {Len(slice)} \cap DOMAIN slice} |-> TRUE]

NewSet(slice) == [k \in Range(slice) |-> TRUE]

NewInclude(operations) == [Side |-> INCLUDE, OperationSet |-> NewSet(operations)]

NewExclude(operations) == [Side |-> EXCLUDE, OperationSet |-> NewSet(operations)]

MapGetDefaultTrue(m, k) == IF k \in DOMAIN m THEN m[k] ELSE TRUE

\* a Go map lookup: the zero value (false) for a key that is absent
MapGet(m, k) == IF k \in DOMAIN m THEN m[k] ELSE FALSE

\* the outcome of a call that panics
Panic == "panic"

MatchNoNegate(c, operation) == MapGet(c.OperationSet, operation)

\* RouteScope.Match, default branch: any other side is a panic
MatchPanics(c) == c.Side \notin {INCLUDE, EXCLUDE}

\* RouteScope.Match, the two branches that return
Match(c, operation) ==
    CASE c.Side = INCLUDE -> MapGet(c.OperationSet, operation)
      [] c.Side = EXCLUDE -> ~MapGet(c.OperationSet, operation)

SideOppositeDefaultInclude(s) ==
    CASE s = INCLUDE -> EXCLUDE
      [] s = EXCLUDE -> INCLUDE
      [] OTHER -> INCLUDE

SideOppositeAlwaysExclude(s) ==
    CASE s = INCLUDE -> EXCLUDE
      [] s = EXCLUDE -> EXCLUDE
      [] OTHER -> Panic

\* SelectSide.Opposite; the default branch panics
SideOpposite(s) ==
    CASE s = INCLUDE -> EXCLUDE
      [] s = EXCLUDE -> INCLUDE
      [] OTHER -> Panic

\* maps.Keys: the keys of the map as a slice, in any order
KeySlices(m) ==
    {sl \in [1..Cardinality(DOMAIN m) -> DOMAIN m] : Range(sl) = DOMAIN m}

\* RouteScope.Opposite, default branch: any other side is a panic
OppositePanics(c) == c.Side \notin {INCLUDE, EXCLUDE}

OppositeSameSide(c, keys) ==
    CASE c.Side = INCLUDE -> NewInclude(keys)
      [] c.Side = EXCLUDE -> NewExclude(keys)

OppositeNoKeys(c, keys) ==
    CASE c.Side = INCLUDE -> NewExclude(<<>>)
      [] c.Side = EXCLUDE -> NewInclude(<<>>)

OppositeLosesSide(c, keys) == [Side |-> INVALID, OperationSet |-> NewSet(keys)]

\* RouteScope.Opposite, the two branches that return; keys is maps.Keys(c.OperationSet)
Opposite(c, keys) ==
    CASE c.Side = INCLUDE -> NewExclude(keys)
      [] c.Side = EXCLUDE -> NewInclude(keys)

\* RouteScope values live behind pointers and their OperationSet is a map,
\* a reference: objs are the RouteScope structs, maps the map objects, a
\* struct holds the index of its map, Nil for a nil map.
Deref(mps, ref) == IF ref = Nil THEN <<>> ELSE mps[ref]

ScopeValue(ob, mps, ptr) ==
    [Side |-> ob[ptr].Side, OperationSet |-> Deref(mps, ob[ptr].OperationSet)]

OppositeObjShared(ob, mps, ptr, keys) ==
    [objs |-> Append(ob, [Side |-> Opposite(ScopeValue(ob, mps, ptr), keys).Side,
                          OperationSet |-> ob[ptr].OperationSet]),
     maps |-> mps, ret |-> Len(ob) + 1]

OppositeObjInPlace(ob, mps, ptr, keys) ==
    [objs |-> [ob EXCEPT ![ptr].Side = Opposite(ScopeValue(ob, mps, ptr), keys).Side],
     maps |-> mps, ret |-> ptr]

\* Opposite returns &RouteScope{...} with the map utils.NewSet made: a new
\* struct and a new map
OppositeObj(ob, mps, ptr, keys) ==
    LET v == Opposite(ScopeValue(ob, mps, ptr), keys)
    IN  [objs |-> Append(ob, [Side |-> v.Side, OperationSet |-> Len(mps) + 1]),
         maps |-> Append(mps, v.OperationSet),
         ret |-> Len(ob) + 1]

\* m[k] = v and delete(m, k) on a map object
MapSet(m, k, v) == [x \in DOMAIN m \cup {k} |-> IF x = k THEN v ELSE m[x]]

MapDelete(m, k) == [x \in DOMAIN m \ {k} |-> m[x]]

\* the argument lists the constructors are called with
OperationLists ==
    {<<>>} \cup {<<x>> : x \in Operations}
           \cup {<<x, y>> : x \in Operations, y \in Operations}

RouteScopes ==
    {NewInclude(l) : l \in OperationLists} \cup {NewExclude(l) : l \in OperationLists}

\* ---------------------------------------------------------------- config
NewConfigNotFirst(routeScope, n) ==
    [kind |-> "period", routeScope |-> routeScope, n |-> n,
     matchFirst |-> FALSE, matchRate |-> 0,
     apmSpanName |-> "", debugMode |-> FALSE]

\* matchkratosperiod.NewConfig: matchFirst defaults to true
NewConfig(routeScope, n) ==
    [kind |-> "period", routeScope |-> routeScope, n |-> n,
     matchFirst |-> TRUE, matchRate |-> 0,
     apmSpanName |-> "", debugMode |-> FALSE]

WithMatchFirst(c, matchFirst) == [c EXCEPT !.matchFirst = matchFirst]

WithDebugMode(c, debugMode) == [c EXCEPT !.debugMode = debugMode]

\* must.Nice: the name given is never blank
WithApmSpanName(c, apmSpanName) == [c EXCEPT !.apmSpanName = apmSpanName]

SpanNames == {"match-kratos"}

\* a Config and the ones that differ from it in debug mode and span name only
ObsVariants(c) ==
    {WithDebugMode(c, d) : d \in BOOLEAN}
    \cup {WithApmSpanName(WithDebugMode(c, d), a) : d \in BOOLEAN, a \in SpanNames}

\* what a call emits on the side: debug lines logged and APM spans started
NoObs == [lines |-> 0, spans |-> 0]

\* if cfg.apmSpanName != "" { span := apmTx.StartSpan(...); defer span.End() }
StartSpan(c, o) == IF c.apmSpanName # "" THEN [o EXCEPT !.spans = @ + 1] ELSE o

\* if cfg.debugMode { slog.Debugf(...) }
Debugf(c, o) == IF c.debugMode THEN [o EXCEPT !.lines = @ + 1] ELSE o

\* authkratosroutes.NewConfig: the match function is the scope's Match
NewRoutesConfig(routeScope) == [kind |-> "scope", routeScope |-> routeScope]

\* no match function at all: the process only converts SelectSide values
NoConfig == [kind |-> "side"]

\* matchkratosrandom.NewConfig
NewRandomConfig(routeScope, matchRate) ==
    [kind |-> "random", routeScope |-> routeScope, n |-> 0,
     matchFirst |-> FALSE, matchRate |-> matchRate,
     apmSpanName |-> "", debugMode |-> FALSE]

\* -------------------------------------------------- the counter store
\* &countBox{&sync.Mutex{}, 0}; mutex is the caller holding it, Nil when free
NewBoxCountOne == [mutex |-> Nil, count |-> 1]

NewBox == [mutex |-> Nil, count |-> 0]

MaxReturnsFirst(a, b) == a

Max(a, b) == IF a >= b THEN a ELSE b

PeriodUnclamped(n) == n

\* max(cfg.n, 1): the modulus of the counter
Period(n) == Max(n, 1)

NextCountOffByOne(count, n) == (count + 1) % (Period(n) + 1)

NextCountNoModulo(count, n) == count + 1

\* (value.count + 1) % uint64(max(cfg.n, 1)); called with Period(n) > 0
NextCount(count, n) == (count + 1) % Period(n)

StoreAlways(m, hp, key) ==
    LET p == Len(hp[key]) + 1
    IN  [mp |-> [m EXCEPT ![key] = p],
         heap |-> [hp EXCEPT ![key] = Append(@, NewBox)],
         value |-> p, loaded |-> FALSE]

LoadAndEvict(m, hp, key) ==
    IF m[key] # Nil
    THEN [mp |-> [m EXCEPT ![key] = Nil], heap |-> hp, value |-> m[key], loaded |-> TRUE]
    ELSE LET p == Len(hp[key]) + 1
         IN  [mp |-> [m EXCEPT ![key] = p],
              heap |-> [hp EXCEPT ![key] = Append(@, NewBox)],
              value |-> p, loaded |-> FALSE]

\* mp.LoadOrStore(operation, &countBox{...}): one atomic operation of the
\* map.  A box is the p-th box ever stored under its key; the map holds the
\* pointer p, Nil while the key has no entry.
LoadOrStore(m, hp, key) ==
    IF m[key] # Nil
    THEN [mp |-> m, heap |-> hp, value |-> m[key], loaded |-> TRUE]
    ELSE LET p == Len(hp[key]) + 1
         IN  [mp |-> [m EXCEPT ![key] = p],
              heap |-> [hp EXCEPT ![key] = Append(@, NewBox)],
              value |-> p, loaded |-> FALSE]

StoreCountShared(hp, key, p, v) ==
    [k \in DOMAIN hp |-> [i \in DOMAIN hp[k] |-> [hp[k][i] EXCEPT !.count = v]]]

\* value.count = ...: a write through the pointer the caller holds
StoreCount(hp, key, p, v) == [hp EXCEPT ![key][p].count = v]

SetMutexNotHeld(hp, key, p, c) == hp

SetMutexNotReleased(hp, key, p, c) ==
    IF c = Nil THEN hp ELSE [hp EXCEPT ![key][p].mutex = c]

SetMutexGlobal(hp, key, p, c) ==
    [k \in DOMAIN hp |-> [i \in DOMAIN hp[k] |-> [hp[k][i] EXCEPT !.mutex = c]]]

\* value.mutex.Lock() / Unlock(): the mutex of the one box the caller holds
SetMutex(hp, key, p, c) == [hp EXCEPT ![key][p].mutex = c]

SkipNever(routeScope, operation) == FALSE

\* if match := cfg.routeScope.Match(operation); !match { return false }
SkipPeriod(routeScope, operation) == ~Match(routeScope, operation)

SkipRandom(routeScope, operation) == ~Match(routeScope, operation)

MatchFirstIgnoresLoaded(loaded, matchFirst) == matchFirst

MatchFirstIgnoresConfig(loaded, matchFirst) == ~loaded

\* if !loaded && cfg.matchFirst { return true }
MatchFirst(loaded, matchFirst) == ~loaded /\ matchFirst

\* ---- one call of the periodic match function run alone, from entry to
\* return, on the store st = [mp, heap] of its match function
MatchFuncCallCountsFirst(c, st, op) ==
    IF SkipPeriod(c.routeScope, op)
    THEN [st |-> st, ret |-> FALSE, panicked |-> FALSE]
    ELSE LET r == LoadOrStore(st.mp, st.heap, op)
             hp == StoreCount(r.heap, op, r.value,
                              NextCount(r.heap[op][r.value].count, c.n))
         IN  IF MatchFirst(r.loaded, c.matchFirst)
             THEN [st |-> [mp |-> r.mp, heap |-> hp], ret |-> TRUE,
                   panicked |-> FALSE]
             ELSE IF Period(c.n) = 0
             THEN [st |-> [mp |-> r.mp, heap |-> r.heap], ret |-> FALSE,
                   panicked |-> TRUE]
             ELSE [st |-> [mp |-> r.mp, heap |-> hp],
                   ret |-> hp[op][r.value].count = 0, panicked |-> FALSE]

\* An integer modulus by zero is a run-time panic in Go.
MatchFuncCall(c, st, op) ==
    IF SkipPeriod(c.routeScope, op)
    THEN [st |-> st, ret |-> FALSE, panicked |-> FALSE]
    ELSE LET r == LoadOrStore(st.mp, st.heap, op)
             hp == StoreCount(r.heap, op, r.value,
                              NextCount(r.heap[op][r.value].count, c.n))
         IN  IF MatchFirst(r.loaded, c.matchFirst)
             THEN [st |-> [mp |-> r.mp, heap |-> r.heap], ret |-> TRUE,
                   panicked |-> FALSE]
             ELSE IF Period(c.n) = 0
             THEN [st |-> [mp |-> r.mp, heap |-> r.heap], ret |-> FALSE,
                   panicked |-> TRUE]
             ELSE [st |-> [mp |-> r.mp, heap |-> hp],
                   ret |-> hp[op][r.value].count = 0, panicked |-> FALSE]

\* mp := syncmap.New(...) inside NewMatchFunc: the store of the match
\* function being built is a new one, the (built + 1)-th allocated
NewStoreSingleton(built) == 1

NewStore(built) == built + 1

\* two match functions, each from its own Config with the same scope and period
NewPairConfig(routeScope, n, first, second) ==
    [kind |-> "pair", routeScope |-> routeScope,
     configs |-> <<WithMatchFirst(NewConfig(routeScope, n), first),
                   WithMatchFirst(NewConfig(routeScope, n), second)>>]

\* ------------------------------------------------ the random match function
RandomMatchInclusive(draw, matchRate) == draw <= matchRate

\* match := rand.Float64() < cfg.matchRate
RandomMatch(draw, matchRate) == draw < matchRate

RandomMatchFuncDebugReturns(c, operation, draw, o) ==
    IF c.debugMode
    THEN [panicked |-> MatchPanics(c.routeScope), ret |-> FALSE,
          obs |-> Debugf(c, StartSpan(c, o))]
    ELSE [panicked |-> MatchPanics(c.routeScope),
          ret |-> IF MatchPanics(c.routeScope) THEN FALSE
                  ELSE IF SkipRandom(c.routeScope, operation) THEN FALSE
                  ELSE RandomMatch(draw, c.matchRate),
          obs |-> StartSpan(c, o)]

\* the function matchkratosrandom.NewMatchFunc returns, for one draw of
\* rand.Float64(): its result, and what it has emitted when it returns
RandomMatchFunc(c, operation, draw, o) ==
    IF MatchPanics(c.routeScope)
    THEN [panicked |-> TRUE, ret |-> FALSE, obs |-> StartSpan(c, o)]
    ELSE IF SkipRandom(c.routeScope, operation)
    THEN [panicked |-> FALSE, ret |-> FALSE, obs |-> Debugf(c, StartSpan(c, o))]
    ELSE [panicked |-> FALSE, ret |-> RandomMatch(draw, c.matchRate),
          obs |-> Debugf(c, StartSpan(c, o))]

\* ------------------------------------------------------- token formats
\* strings are sequences of byte values
Colon == <<58>>

BearerPrefix == <<66, 101, 97, 114, 101, 114, 32>>

BasicPrefix == <<66, 97, 115, 105, 99, 32>>

\* the alphabet of base64.StdEncoding: A-Z a-z 0-9 + /
EncodeChar(i) ==
    IF i < 26 THEN 65 + i
    ELSE IF i < 52 THEN 97 + (i - 26)
    ELSE IF i < 62 THEN 48 + (i - 52)
    ELSE IF i = 62 THEN 43 ELSE 47

PadChar == <<61>>

\* base64.StdEncoding.EncodeToString: three bytes give four characters, a
\* last group of one or two bytes is padded with '='
RECURSIVE EncodeToString(_)
EncodeToString(src) ==
    IF Len(src) = 0 THEN <<>>
    ELSE IF Len(src) = 1
    THEN LET v == src[1] * 65536
         IN  <<EncodeChar(v \div 262144), EncodeChar((v \div 4096) % 64)>>
             \o PadChar \o PadChar
    ELSE IF Len(src) = 2
    THEN LET v == src[1] * 65536 + src[2] * 256
         IN  <<EncodeChar(v \div 262144), EncodeChar((v \div 4096) % 64),
               EncodeChar((v \div 64) % 64)>> \o PadChar
    ELSE LET v == src[1] * 65536 + src[2] * 256 + src[3]
         IN  <<EncodeChar(v \div 262144), EncodeChar((v \div 4096) % 64),
               EncodeChar((v \div 64) % 64), EncodeChar(v % 64)>>
             \o EncodeToString(SubSeq(src, 4, Len(src)))

SimpleForm(username, token) == token

BearerForm(username, token) == BearerPrefix \o token

\* "Basic " + base64(fmt.Sprintf("%s:%s", username, token))
Base64Form(username, token) ==
    BasicPrefix \o EncodeToString(username \o Colon \o token)

\* ------------------------------------------------------ the middlewares
\* kratos errors: the HTTP code and the reason
NoError == [code |-> 0, reason |-> ""]

Unauthorized(reason) == [code |-> 401, reason |-> reason]

ServiceUnavailable(reason) == [code |-> 503, reason |-> reason]

\* ratelimit.ErrLimitExceed
ErrLimitExceed == [code |-> 429, reason |-> "RATELIMIT"]

\* the context of a request: whether it carries a server transport, the
\* value of the header cfg.fieldName names, what cfg.keyFromCtx finds in
\* it, and the values set into it on the way to the handler
NewContext(transport, header, keyOk, key) ==
    [transport |-> transport, header |-> header, keyOk |-> keyOk, key |-> key,
     hasUsername |-> FALSE, username |-> <<>>, checkedBy |-> <<>>]

SetUsername(ctx, username) ==
    [ctx EXCEPT !.hasUsername = TRUE, !.username = username]

GetUsername(ctx) == [username |-> ctx.username, ok |-> ctx.hasUsername]

\* what a request ends with: whether the handler was invoked and with which
\* context, the error returned when it was not, and whether the guarded
\* behaviour (token check, limit-store call, block) was executed
Handled(ctx, guarded) ==
    [handled |-> TRUE, ctx |-> ctx, err |-> NoError, guarded |-> guarded]

Rejected(ctx, err, guarded) ==
    [handled |-> FALSE, ctx |-> ctx, err |-> err, guarded |-> guarded]

SelectorIgnoresMatch(ctx, match, inner) == inner

\* selector.Server(middleware).Match(matchFunc).Build(): the middleware
\* runs when the context carries a server transport and matchFunc returns
\* true for its operation; otherwise the handler is invoked directly
Selector(ctx, match, inner) ==
    IF ctx.transport /\ match THEN inner ELSE Handled(ctx, FALSE)

\* ------------------------------------------------------ authkratostokens
NewTokensConfig(routeScope, authTokens) ==
    [kind |-> "tokens", routeScope |-> routeScope, authTokens |-> authTokens,
     simpleEnable |-> FALSE, bearerEnable |-> FALSE, base64Enable |-> FALSE]

WithSimpleEnable(c) == [c EXCEPT !.simpleEnable = TRUE]

WithBearerEnable(c) == [c EXCEPT !.bearerEnable = TRUE]

WithBase64Enable(c) == [c EXCEPT !.base64Enable = TRUE]

\* make(map[string]string)
EmptyMap == <<>>

\* for username, token := range usernameToTokenMap { m[form] = username }:
\* the order of a range over a map is not fixed, so a form two users share
\* keeps either of them
TokenMaps(formOf) ==
    LET forms == {formOf[u] : u \in DOMAIN formOf}
    IN  {m \in [forms -> DOMAIN formOf] : \A f \in forms : formOf[m[f]] = f}

newSimpleTokenMap(usernameToTokenMap) ==
    TokenMaps([u \in DOMAIN usernameToTokenMap |->
                  SimpleForm(u, usernameToTokenMap[u])])

newBearerTokenMap(usernameToTokenMap) ==
    TokenMaps([u \in DOMAIN usernameToTokenMap |->
                  BearerForm(u, usernameToTokenMap[u])])

newBase64TokenMap(usernameToTokenMap) ==
    TokenMaps([u \in DOMAIN usernameToTokenMap |->
                  Base64Form(u, usernameToTokenMap[u])])

MapBoxesAllFormats(c) ==
    {[simpleTokenMap |-> s, bearerTokenMap |-> b, base64TokenMap |-> e] :
        s \in newSimpleTokenMap(c.authTokens),
        b \in newBearerTokenMap(c.authTokens),
        e \in newBase64TokenMap(c.authTokens)}

\* the authTokenMapBox middlewareFunc builds: a map per enabled format, an
\* empty map for a format that is not enabled
MapBoxes(c) ==
    {[simpleTokenMap |-> s, bearerTokenMap |-> b, base64TokenMap |-> e] :
        s \in IF c.simpleEnable THEN newSimpleTokenMap(c.authTokens) ELSE {EmptyMap},
        b \in IF c.bearerEnable THEN newBearerTokenMap(c.authTokens) ELSE {EmptyMap},
        e \in IF c.base64Enable THEN newBase64TokenMap(c.authTokens) ELSE {EmptyMap}}

checkAuthTokenNoFormatCheck(c, mapBox, token) ==
    IF token \in DOMAIN mapBox.simpleTokenMap
    THEN [username |-> mapBox.simpleTokenMap[token], err |-> NoError]
    ELSE IF token \in DOMAIN mapBox.bearerTokenMap
    THEN [username |-> mapBox.bearerTokenMap[token], err |-> NoError]
    ELSE IF token \in DOMAIN mapBox.base64TokenMap
    THEN [username |-> mapBox.base64TokenMap[token], err |-> NoError]
    ELSE [username |-> <<>>, err |-> NoError]

checkAuthToken(c, mapBox, token) ==
    IF ~c.simpleEnable /\ ~c.bearerEnable /\ ~c.base64Enable
    THEN [username |-> <<>>, err |-> Unauthorized("UNAUTHORIZED")]
    ELSE IF token \in DOMAIN mapBox.simpleTokenMap
    THEN [username |-> mapBox.simpleTokenMap[token], err |-> NoError]
    ELSE IF token \in DOMAIN mapBox.bearerTokenMap
    THEN [username |-> mapBox.bearerTokenMap[token], err |-> NoError]
    ELSE IF token \in DOMAIN mapBox.base64TokenMap
    THEN [username |-> mapBox.base64TokenMap[token], err |-> NoError]
    ELSE [username |-> <<>>, err |-> Unauthorized("UNAUTHORIZED")]

\* the handler middlewareFunc wraps around handleFunc
TokensMiddlewareFunc(c, mapBox, ctx) ==
    IF ~ctx.transport
    THEN Rejected(ctx, Unauthorized("UNAUTHORIZED"), FALSE)
    ELSE IF ctx.header = <<>>
    THEN Rejected(ctx, Unauthorized("UNAUTHORIZED"), FALSE)
    ELSE LET r == checkAuthToken(c, mapBox, ctx.header)
         IN  IF r.err # NoError
             THEN Rejected(ctx, r.err, TRUE)
             ELSE Handled(SetUsername(ctx, r.username), TRUE)

\* NewMiddleware: middlewareFunc behind the selector with matchFunc
TokensMiddleware(c, mapBox, ctx, operation) ==
    Selector(ctx, Match(c.routeScope, operation), TokensMiddlewareFunc(c, mapBox, ctx))

\* ------------------------------------------------------ passkratosrandom
NewChaosConfig(routeScope, passRate) ==
    [kind |-> "chaos", routeScope |-> routeScope, rate |-> passRate]

ChaosMatchFuncBlocksOnPass(c, operation, draw) ==
    IF ~Match(c.routeScope, operation) THEN FALSE ELSE draw < c.rate

\* matchFunc: false outside the scope; inside it ratePass := rand.Float64()
\* < cfg.rate and the middleware is entered when the request does not pass
ChaosMatchFunc(c, operation, draw) ==
    IF ~Match(c.routeScope, operation) THEN FALSE ELSE ~(draw < c.rate)

\* middlewareFunc: the error, whatever the request
ChaosMiddlewareFunc(ctx) ==
    Rejected(ctx, ServiceUnavailable("RANDOM_RATE_UNAVAILABLE"), TRUE)

ChaosMiddleware(c, ctx, operation, draw) ==
    Selector(ctx, ChaosMatchFunc(c, operation, draw), ChaosMiddlewareFunc(ctx))

\* ------------------------------------------------------ ratekratoslimits
NewLimitsConfig(routeScope) ==
    [kind |-> "limits", routeScope |-> routeScope]

\* what redisCache.Allow returns: an error, or a result with its Allowed
StoreError == [err |-> TRUE, allowed |-> 0]

StoreResult(allowed) == [err |-> FALSE, allowed |-> allowed]

LimitsMiddlewareFuncFailsOpen(ctx, store) ==
    IF ~ctx.keyOk
    THEN Rejected(ctx, ErrLimitExceed, FALSE)
    ELSE IF ctx.key = <<>>
    THEN Rejected(ctx, ErrLimitExceed, FALSE)
    ELSE IF store.err
    THEN Handled(ctx, TRUE)
    ELSE IF store.allowed <= 0
    THEN Rejected(ctx, ErrLimitExceed, TRUE)
    ELSE Handled(ctx, TRUE)

\* middlewareFunc: the key from the context, then the store, then the
\* handler; guarded records that redisCache.Allow was called
LimitsMiddlewareFunc(ctx, store) ==
    IF ~ctx.keyOk
    THEN Rejected(ctx, ErrLimitExceed, FALSE)
    ELSE IF ctx.key = <<>>
    THEN Rejected(ctx, ErrLimitExceed, FALSE)
    ELSE IF store.err
    THEN Rejected(ctx, ServiceUnavailable("unavailable"), TRUE)
    ELSE IF store.allowed <= 0
    THEN Rejected(ctx, ErrLimitExceed, TRUE)
    ELSE Handled(ctx, TRUE)

LimitsMiddleware(c, ctx, operation, store) ==
    Selector(ctx, Match(c.routeScope, operation), LimitsMiddlewareFunc(ctx, store))

\* ------------------------------------------------------ authkratossimple
\* the custom check function is given by the tokens it accepts and the
\* error it returns for the others
NewSimpleConfig(routeScope, accepts, checkError) ==
    [kind |-> "simple", routeScope |-> routeScope, accepts |-> accepts,
     checkError |-> checkError]

\* CheckTokenAndSetCtxFunc: a new context and an error; the new context
\* carries what the function learned from the token
checkToken(c, ctx, token) ==
    [ctx |-> [ctx EXCEPT !.checkedBy = token],
     err |-> IF token \in c.accepts THEN NoError ELSE c.checkError]

SimpleMiddlewareFuncKeepsContext(c, ctx) ==
    IF ~ctx.transport
    THEN Rejected(ctx, Unauthorized("UNAUTHORIZED"), FALSE)
    ELSE IF ctx.header = <<>>
    THEN Rejected(ctx, Unauthorized("UNAUTHORIZED"), FALSE)
    ELSE LET r == checkToken(c, ctx, ctx.header)
         IN  IF r.err # NoError
             THEN Rejected(ctx, r.err, TRUE)
             ELSE Handled(ctx, TRUE)

\* middlewareFunc: guarded records that cfg.checkToken was called
SimpleMiddlewareFunc(c, ctx) ==
    IF ~ctx.transport
    THEN Rejected(ctx, Unauthorized("UNAUTHORIZED"), FALSE)
    ELSE IF ctx.header = <<>>
    THEN Rejected(ctx, Unauthorized("UNAUTHORIZED"), FALSE)
    ELSE LET r == checkToken(c, ctx, ctx.header)
         IN  IF r.err # NoError
             THEN Rejected(ctx, r.err, TRUE)
             ELSE Handled(r.ctx, TRUE)

SimpleMiddleware(c, ctx, operation) ==
    Selector(ctx, Match(c.routeScope, operation), SimpleMiddlewareFunc(c, ctx))

\* ------------------------------------------------------------------ state
VARIABLES
    cfg,        \* the Config the match function was built from
    mp,         \* syncmap: operation -> pointer to its countBox, or Nil
    heap,       \* operation -> the boxes ever stored under it
    pc,         \* caller -> position in the match function
    operation,  \* caller -> argument of its call
    value,      \* caller -> pointer returned by LoadOrStore
    loaded,     \* caller -> loaded flag returned by LoadOrStore
    count,      \* caller -> local copy of value.count
    ret,        \* caller -> result its last call returned
    rank,       \* caller -> position of its decision in serial[operation]
    serial,     \* operation -> the decisions taken, in the order of record
                \* creation and lock acquisition
    results,    \* operation -> calls returned and calls that returned true
    started,    \* calls of the periodic match function begun so far
    rnd,        \* last call of the random match function
    obs,        \* debug lines logged and APM spans started so far
    objs,       \* the RouteScope structs allocated, by pointer
    maps,       \* the OperationSet map objects allocated, by reference
    chain,      \* chain[1] points to the scope first built, chain[k+1] to
                \* the result of Opposite on chain[k]
    made,       \* how chain[1] was built: constructor and its arguments
    sides,      \* sides[k+1] is the result of SelectSide.Opposite on sides[k]
    written,    \* the chain positions whose map was written from outside, and how many writes
    out,        \* the last call made on a scope or a side, and its outcome
    mw,         \* a middleware: what NewMiddleware built, the requests served
                \* so far and the last one with its outcome
    fns         \* two match functions built by two NewMatchFunc calls: the
                \* store each holds, the stores, the results each returned,
                \* whether a call panicked

vars == <<cfg, mp, heap, pc, operation, value, loaded, count, ret, rank,
          serial, results, started, rnd, obs, objs, maps, chain, made, sides,
          written, out, mw, fns>>

\* no request passes through a middleware, and the pair of match functions
\* is not called, while a match function, a scope or a side is exercised: mw
\* and fns stay as they are with either group
scopeVars == <<objs, maps, chain, made, sides, written, out, mw, fns>>

matchVars == <<mp, heap, pc, operation, value, loaded, count, ret, rank,
               serial, results, started, rnd, obs, mw, fns>>

callerVars == <<pc, operation, value, loaded, count, ret, rank>>

NoRandomCall ==
    [operation |-> "", draw |-> 0, ret |-> FALSE, panicked |-> FALSE, calls |-> 0]

\* the scopes of the periodic match function, which reads a scope through
\* Match only: every way for the two operations to be in or out of scope,
\* and both sides
PeriodScopes ==
    {NewInclude(l) : l \in OperationLists} \cup {NewExclude(<<"a/b/c">>)}

\* for every such scope and every period the Config as NewConfig returns it
\* and the Config with matchFirst set either way, with the default
\* observability; for one scope with a member and a non-member, the period
\* clamped and the longest period, every debug mode and span name
PeriodConfigs ==
    {NewConfig(s, n) : s \in PeriodScopes, n \in 0..MaxPeriod}
    \cup {WithMatchFirst(NewConfig(s, n), mf) :
             s \in PeriodScopes, n \in 0..MaxPeriod, mf \in BOOLEAN}
    \cup UNION {ObsVariants(WithMatchFirst(NewConfig(NewInclude(<<"a/b/c">>), n), mf)) :
                  n \in {0, MaxPeriod}, mf \in BOOLEAN}

RandomConfigs ==
    UNION {ObsVariants(NewRandomConfig(s, r)) : s \in RouteScopes, r \in Rates}

\* ---- authkratostokens: configurations and request headers
\* usernames a, b, a: and tokens x, y, the empty token, :x and Bearer x
AuthTokenMaps ==
    {<<>>,
     (<<97>> :> <<120>>),
     (<<97>> :> <<120>>) @@ (<<98>> :> <<121>>),
     (<<97>> :> <<120>>) @@ (<<98>> :> <<120>>),
     (<<97>> :> <<>>),
     (<<97, 58>> :> <<120>>) @@ (<<97>> :> <<58, 120>>),
     (<<97>> :> <<120>>) @@ (<<98>> :> (BearerPrefix \o <<120>>))}

MiddlewareScopes == {NewInclude(<<"a/b/c">>), NewExclude(<<"a/b/c">>)}

TokensConfigs ==
    {[NewTokensConfig(s, m) EXCEPT !.simpleEnable = e[1], !.bearerEnable = e[2],
                                   !.base64Enable = e[3]] :
        s \in MiddlewareScopes, m \in AuthTokenMaps,
        e \in BOOLEAN \X BOOLEAN \X BOOLEAN}

Credentials == UNION {{<<u, m[u]>> : u \in DOMAIN m} : m \in AuthTokenMaps}

\* no header, a token nobody has, and every configured credential in each
\* of the three formats
Headers ==
    {<<>>, <<122>>}
    \cup {SimpleForm(c[1], c[2]) : c \in Credentials}
    \cup {BearerForm(c[1], c[2]) : c \in Credentials}
    \cup {Base64Form(c[1], c[2]) : c \in Credentials}

NoOutcome == [handled |-> FALSE, ctx |-> NewContext(FALSE, <<>>, FALSE, <<>>),
              err |-> NoError, guarded |-> FALSE]

NoRequest(mapBox) ==
    [mapBox |-> mapBox, calls |-> 0, storeCalls |-> 0, operation |-> "",
     draw |-> 0, store |-> StoreResult(0), res |-> NoOutcome]

NoMapBox ==
    [simpleTokenMap |-> EmptyMap, bearerTokenMap |-> EmptyMap,
     base64TokenMap |-> EmptyMap]

\* NewMiddleware: the closure state of the middleware built from a Config
NewMiddleware(c) ==
    IF c.kind = "tokens" THEN {NoRequest(b) : b \in MapBoxes(c)}
    ELSE {NoRequest(NoMapBox)}

ChaosConfigs == {NewChaosConfig(s, r) : s \in MiddlewareScopes, r \in Rates}

LimitsConfigs == {NewLimitsConfig(s) : s \in MiddlewareScopes}

\* the unique keys keyFromCtx extracts: none, or one client's
UniqueKeys == {<<>>, <<107>>}

StoreResults == {StoreError} \cup {StoreResult(a) : a \in -1 .. 1}

\* the Authorization header of a request to the simple middleware
SimpleHeaders == {<<>>, <<120>>, <<122>>}

SimpleConfigs ==
    {NewSimpleConfig(s, a, e) :
        s \in MiddlewareScopes,
        a \in {{}, {<<120>>}, {<<>>, <<120>>}},
        e \in {Unauthorized("INVALID_TOKEN"), ServiceUnavailable("CHECK_UNAVAILABLE")}}

PairConfigs ==
    {NewPairConfig(s, n, first, second) :
        s \in MiddlewareScopes, n \in 0..MaxPeriod,
        first \in BOOLEAN, second \in BOOLEAN}

EmptyStore == [mp |-> [o \in Operations |-> Nil], heap |-> [o \in Operations |-> <<>>]]

\* NewMatchFunc called twice
NewMatchFuncs ==
    [store |-> <<NewStore(0), NewStore(1)>>,
     stores |-> <<EmptyStore, EmptyStore>>,
     hist |-> [e \in 1..2 |-> [o \in Operations |-> <<>>]],
     calls |-> 0, panicked |-> FALSE]

NoCall == [fn |-> "", recv |-> 0, operation |-> "", ret |-> FALSE, panicked |-> FALSE]

\* scopes built by the constructors, and RouteScope{...} literals: the fields
\* are exported, the map of a literal may be nil
ScopeBuilds ==
    {[made |-> [fn |-> "NewInclude", operations |-> l],
      side |-> NewInclude(l).Side, ref |-> 1, maps |-> <<NewInclude(l).OperationSet>>] :
        l \in OperationLists}
    \cup
    {[made |-> [fn |-> "NewExclude", operations |-> l],
      side |-> NewExclude(l).Side, ref |-> 1, maps |-> <<NewExclude(l).OperationSet>>] :
        l \in OperationLists}
    \cup
    {[made |-> [fn |-> "literal", operations |-> <<>>],
      side |-> sd, ref |-> Nil, maps |-> <<>>] : sd \in {INCLUDE, EXCLUDE, INVALID}}
    \cup
    {[made |-> [fn |-> "literal", operations |-> <<>>],
      side |-> INVALID, ref |-> 1, maps |-> <<NewSet(<<"a/b/c">>)>>]}

InitScopes ==
    \/ /\ cfg \in PeriodConfigs \cup RandomConfigs
       /\ objs = <<>> /\ maps = <<>> /\ chain = <<>> /\ sides = <<>>
       /\ made = [fn |-> "", operations |-> <<>>]
    \/ \E b \in ScopeBuilds :
          /\ objs = <<[Side |-> b.side, OperationSet |-> b.ref]>>
          /\ maps = b.maps
          /\ chain = <<1>>
          /\ made = b.made
          /\ sides = <<>>
          /\ cfg = NewRoutesConfig(ScopeValue(objs, maps, 1))
    \/ \E sd \in {INCLUDE, EXCLUDE, INVALID} :
          /\ cfg = NoConfig
          /\ objs = <<>> /\ maps = <<>> /\ chain = <<>> /\ sides = <<sd>>
          /\ made = [fn |-> "", operations |-> <<>>]
    \/ /\ cfg \in TokensConfigs \cup ChaosConfigs \cup LimitsConfigs
                  \cup SimpleConfigs \cup PairConfigs
       /\ objs = <<>> /\ maps = <<>> /\ chain = <<>> /\ sides = <<>>
       /\ made = [fn |-> "", operations |-> <<>>]

\* NewMatchFunc: an empty map of its own, no call made yet
Init ==
    /\ InitScopes
    /\ written = [scopes |-> {}, n |-> 0]
    /\ out = NoCall
    /\ mw \in NewMiddleware(cfg)
    /\ fns = NewMatchFuncs
    /\ mp = [o \in Operations |-> Nil]
    /\ heap = [o \in Operations |-> <<>>]
    /\ pc = [c \in Callers |-> "idle"]
    /\ operation = [c \in Callers |-> ""]
    /\ value = [c \in Callers |-> Nil]
    /\ loaded = [c \in Callers |-> FALSE]
    /\ count = [c \in Callers |-> 0]
    /\ ret = [c \in Callers |-> FALSE]
    /\ rank = [c \in Callers |-> 0]
    /\ serial = [o \in Operations |-> <<>>]
    /\ results = [o \in Operations |-> [calls |-> 0, trues |-> 0]]
    /\ started = 0
    /\ rnd = NoRandomCall
    /\ obs = NoObs

Returned(res, op, r) ==
    [res EXCEPT ![op] = [calls |-> @.calls + 1,
                         trues |-> @.trues + (IF r THEN 1 ELSE 0)]]

\* ---------------------------------------------------------------- actions
\* a request enters the periodic match function; the scope check reads only
\* the immutable Config
Call(c, op) ==
    /\ cfg.kind = "period"
    /\ pc[c] \in {"idle", "done"}
    /\ started < MaxCalls
    /\ started' = started + 1
    /\ operation' = [operation EXCEPT ![c] = op]
    /\ value' = [value EXCEPT ![c] = Nil]
    /\ loaded' = [loaded EXCEPT ![c] = FALSE]
    /\ count' = [count EXCEPT ![c] = 0]
    /\ rank' = [rank EXCEPT ![c] = 0]
    /\ IF MatchPanics(cfg.routeScope)
       THEN /\ pc' = [pc EXCEPT ![c] = Panic]
            /\ obs' = StartSpan(cfg, obs)
            /\ UNCHANGED <<ret, results>>
       ELSE IF SkipPeriod(cfg.routeScope, op)
       THEN /\ pc' = [pc EXCEPT ![c] = "done"]
            /\ ret' = [ret EXCEPT ![c] = FALSE]
            /\ results' = Returned(results, op, FALSE)
            /\ obs' = Debugf(cfg, StartSpan(cfg, obs))
       ELSE /\ pc' = [pc EXCEPT ![c] = "load"]
            /\ obs' = StartSpan(cfg, obs)
            /\ UNCHANGED <<ret, results>>
    /\ UNCHANGED <<cfg, mp, heap, serial, rnd>>
    /\ UNCHANGED scopeVars

\* value, loaded := mp.LoadOrStore(...), then the first-match return
MapLoadOrStore(c) ==
    /\ pc[c] = "load"
    /\ LET op == operation[c]
           r == LoadOrStore(mp, heap, op)
       IN  /\ mp' = r.mp
           /\ heap' = r.heap
           /\ value' = [value EXCEPT ![c] = r.value]
           /\ loaded' = [loaded EXCEPT ![c] = r.loaded]
           /\ IF MatchFirst(r.loaded, cfg.matchFirst)
              THEN /\ pc' = [pc EXCEPT ![c] = "done"]
                   /\ ret' = [ret EXCEPT ![c] = TRUE]
                   /\ serial' = [serial EXCEPT ![op] =
                                    Append(@, [free |-> TRUE, match |-> TRUE])]
                   /\ rank' = [rank EXCEPT ![c] = Len(serial[op]) + 1]
                   /\ results' = Returned(results, op, TRUE)
                   /\ obs' = Debugf(cfg, obs)
              ELSE /\ pc' = [pc EXCEPT ![c] = "lock"]
                   /\ UNCHANGED <<ret, serial, rank, results, obs>>
    /\ UNCHANGED <<cfg, operation, count, started, rnd>>
    /\ UNCHANGED scopeVars

\* value.mutex.Lock()
Lock(c) ==
    /\ pc[c] = "lock"
    /\ heap[operation[c]][value[c]].mutex = Nil
    /\ heap' = SetMutex(heap, operation[c], value[c], c)
    /\ pc' = [pc EXCEPT ![c] = "incr"]
    /\ UNCHANGED <<cfg, mp, operation, value, loaded, count, ret, rank,
                   serial, results, started, rnd, obs>>
    /\ UNCHANGED scopeVars

\* (value.count + 1) % uint64(max(cfg.n, 1)): the read of value.count and the
\* value to assign, kept by the caller until it is stored.
\* An integer modulus by zero is a run-time panic in Go.
Incr(c) ==
    /\ pc[c] = "incr"
    /\ LET op == operation[c]
           p == value[c]
       IN  IF Period(cfg.n) = 0
           THEN /\ pc' = [pc EXCEPT ![c] = Panic]
                /\ UNCHANGED count
           ELSE /\ count' = [count EXCEPT ![c] = NextCount(heap[op][p].count, cfg.n)]
                /\ pc' = [pc EXCEPT ![c] = "store"]
    /\ UNCHANGED <<cfg, mp, heap, operation, value, loaded, ret, rank, serial,
                   results, started, rnd, obs>>
    /\ UNCHANGED scopeVars

\* value.count = ...; count := value.count
Store(c) ==
    /\ pc[c] = "store"
    /\ LET op == operation[c]
           p == value[c]
           hp == StoreCount(heap, op, p, count[c])
       IN  /\ heap' = hp
           /\ count' = [count EXCEPT ![c] = hp[op][p].count]
           /\ serial' = [serial EXCEPT ![op] =
                 Append(@, [free |-> FALSE, match |-> hp[op][p].count = 0])]
           /\ rank' = [rank EXCEPT ![c] = Len(serial[op]) + 1]
           /\ pc' = [pc EXCEPT ![c] = "unlock"]
    /\ UNCHANGED <<cfg, mp, operation, value, loaded, ret, results, started,
                   rnd, obs>>
    /\ UNCHANGED scopeVars

\* value.mutex.Unlock(); match := count == 0; return match
Unlock(c) ==
    /\ pc[c] = "unlock"
    /\ heap' = SetMutex(heap, operation[c], value[c], Nil)
    /\ ret' = [ret EXCEPT ![c] = (count[c] = 0)]
    /\ results' = Returned(results, operation[c], count[c] = 0)
    /\ pc' = [pc EXCEPT ![c] = "done"]
    /\ obs' = Debugf(cfg, obs)
    /\ UNCHANGED <<cfg, mp, operation, value, loaded, count, rank, serial,
                   started, rnd>>
    /\ UNCHANGED scopeVars

\* one call of the random match function: match := rand.Float64() < cfg.matchRate
MatchRandom(op, draw) ==
    /\ cfg.kind = "random"
    /\ rnd.calls < MaxCalls
    /\ LET r == RandomMatchFunc(cfg, op, draw, obs)
       IN  /\ rnd' = [operation |-> op, draw |-> draw, panicked |-> r.panicked,
                      ret |-> r.ret, calls |-> rnd.calls + 1]
           /\ obs' = r.obs
    /\ UNCHANGED <<cfg, mp, heap, callerVars, serial, results, started>>
    /\ UNCHANGED scopeVars

\* scope.Match(op), also what the match function of authkratosroutes returns
RouteMatch(i, op) ==
    /\ cfg.kind = "scope"
    /\ i \in 1..Len(chain)
    /\ LET v == ScopeValue(objs, maps, chain[i])
       IN  out' = [fn |-> "Match", recv |-> i, operation |-> op,
                   panicked |-> MatchPanics(v),
                   ret |-> IF MatchPanics(v) THEN FALSE ELSE Match(v, op)]
    /\ UNCHANGED <<cfg, matchVars, objs, maps, chain, made, sides, written>>

\* scope.Opposite() on the scope last obtained
RouteOpposite(keys) ==
    /\ cfg.kind = "scope"
    /\ Len(chain) <= MaxOpposite
    /\ LET i == Len(chain)
           v == ScopeValue(objs, maps, chain[i])
       IN  /\ keys \in KeySlices(v.OperationSet)
           /\ IF OppositePanics(v)
              THEN /\ out' = [fn |-> "Opposite", recv |-> i, operation |-> "",
                              panicked |-> TRUE, ret |-> FALSE]
                   /\ UNCHANGED <<objs, maps, chain>>
              ELSE LET r == OppositeObj(objs, maps, chain[i], keys)
                   IN  /\ objs' = r.objs
                       /\ maps' = r.maps
                       /\ chain' = Append(chain, r.ret)
                       /\ out' = [fn |-> "Opposite", recv |-> i, operation |-> "",
                                  panicked |-> FALSE, ret |-> FALSE]
    /\ UNCHANGED <<cfg, matchVars, made, sides, written>>

\* side.Opposite() on the side last obtained
SelectSideOpposite ==
    /\ cfg.kind = "side"
    /\ Len(sides) <= MaxOpposite
    /\ LET r == SideOpposite(sides[Len(sides)])
       IN  IF r = Panic
           THEN /\ out' = [fn |-> "Side.Opposite", recv |-> Len(sides), operation |-> "",
                           panicked |-> TRUE, ret |-> FALSE]
                /\ UNCHANGED sides
           ELSE /\ sides' = Append(sides, r)
                /\ out' = [fn |-> "Side.Opposite", recv |-> Len(sides), operation |-> "",
                           panicked |-> FALSE, ret |-> FALSE]
    /\ UNCHANGED <<cfg, matchVars, objs, maps, chain, made, written>>

\* code outside the package adds a member: scope.OperationSet[op] = true;
\* an assignment to an entry of a nil map panics
WriteMember(i, op) ==
    /\ cfg.kind = "scope"
    /\ i \in 1..Len(chain)
    /\ written.n < MaxWrites
    /\ LET ref == objs[chain[i]].OperationSet
       IN  IF ref = Nil
           THEN /\ out' = [fn |-> "Write", recv |-> i, operation |-> op,
                           panicked |-> TRUE, ret |-> FALSE]
                /\ UNCHANGED <<maps, written>>
           ELSE /\ maps' = [maps EXCEPT ![ref] = MapSet(@, op, TRUE)]
                /\ written' = [scopes |-> written.scopes \cup {i}, n |-> written.n + 1]
                /\ out' = [fn |-> "Write", recv |-> i, operation |-> op,
                           panicked |-> FALSE, ret |-> FALSE]
    /\ UNCHANGED <<cfg, matchVars, objs, chain, made, sides>>

\* code outside the package removes a member: delete(scope.OperationSet, op);
\* a no-op on a nil map
DeleteMember(i, op) ==
    /\ cfg.kind = "scope"
    /\ i \in 1..Len(chain)
    /\ written.n < MaxWrites
    /\ LET ref == objs[chain[i]].OperationSet
       IN  IF ref = Nil
           THEN UNCHANGED <<maps, written>>
           ELSE /\ maps' = [maps EXCEPT ![ref] = MapDelete(@, op)]
                /\ written' = [scopes |-> written.scopes \cup {i}, n |-> written.n + 1]
    /\ out' = [fn |-> "Delete", recv |-> i, operation |-> op,
               panicked |-> FALSE, ret |-> FALSE]
    /\ UNCHANGED <<cfg, matchVars, objs, chain, made, sides>>

\* ---- requests through the middlewares
\* a request through the token middleware
TokensRequest(op, transport, header) ==
    /\ cfg.kind = "tokens"
    /\ mw.calls < MaxRequests
    /\ mw' = [mw EXCEPT !.calls = @ + 1, !.operation = op,
                        !.res = TokensMiddleware(cfg, mw.mapBox,
                                    NewContext(transport, header, FALSE, <<>>), op)]
    /\ UNCHANGED <<cfg, mp, heap, callerVars, serial, results, started, rnd, obs>>
    /\ UNCHANGED <<objs, maps, chain, made, sides, written, out, fns>>

\* a request through the chaos middleware, with the draw rand.Float64()
\* gives when it is called
ChaosRequest(op, transport, draw) ==
    /\ cfg.kind = "chaos"
    /\ mw.calls < MaxRequests
    /\ mw' = [mw EXCEPT !.calls = @ + 1, !.operation = op, !.draw = draw,
                        !.res = ChaosMiddleware(cfg,
                                    NewContext(transport, <<>>, FALSE, <<>>), op, draw)]
    /\ UNCHANGED <<cfg, mp, heap, callerVars, serial, results, started, rnd, obs>>
    /\ UNCHANGED <<objs, maps, chain, made, sides, written, out, fns>>

\* a request through the rate limit middleware; store is what the limit
\* store answers if it is asked
LimitsRequest(op, transport, keyOk, key, store) ==
    /\ cfg.kind = "limits"
    /\ mw.calls < MaxRequests
    /\ LET res == LimitsMiddleware(cfg, NewContext(transport, <<>>, keyOk, key),
                                   op, store)
       IN  mw' = [mw EXCEPT !.calls = @ + 1, !.operation = op, !.store = store,
                            !.storeCalls = IF res.guarded THEN @ + 1 ELSE @,
                            !.res = res]
    /\ UNCHANGED <<cfg, mp, heap, callerVars, serial, results, started, rnd, obs>>
    /\ UNCHANGED <<objs, maps, chain, made, sides, written, out, fns>>

\* a request through the simple auth middleware
SimpleRequest(op, transport, header) ==
    /\ cfg.kind = "simple"
    /\ mw.calls < MaxRequests
    /\ mw' = [mw EXCEPT !.calls = @ + 1, !.operation = op,
                        !.res = SimpleMiddleware(cfg,
                                    NewContext(transport, header, FALSE, <<>>), op)]
    /\ UNCHANGED <<cfg, mp, heap, callerVars, serial, results, started, rnd, obs>>
    /\ UNCHANGED <<objs, maps, chain, made, sides, written, out, fns>>

\* one call, run alone, of match function e of the pair
PairCall(e, op) ==
    /\ cfg.kind = "pair"
    /\ fns.calls < MaxCalls
    /\ LET r == MatchFuncCall(cfg.configs[e], fns.stores[fns.store[e]], op)
       IN  fns' = [fns EXCEPT !.stores[fns.store[e]] = r.st,
                              !.hist[e][op] = IF r.panicked THEN @ ELSE Append(@, r.ret),
                              !.calls = @ + 1,
                              !.panicked = @ \/ r.panicked]
    /\ UNCHANGED <<cfg, mp, heap, callerVars, serial, results, started, rnd, obs>>
    /\ UNCHANGED <<objs, maps, chain, made, sides, written, out, mw>>

\* a request is served by the middleware the Config was made for
Next ==
    \/ \E i \in 1..(MaxOpposite + 1), op \in Queries : RouteMatch(i, op)
    \/ \E keys \in UNION {KeySlices(maps[r]) : r \in 1..Len(maps)} \cup {<<>>} :
          RouteOpposite(keys)
    \/ SelectSideOpposite
    \/ \E i \in 1..(MaxOpposite + 1), op \in WriteOps : WriteMember(i, op)
    \/ \E i \in 1..(MaxOpposite + 1), op \in WriteOps : DeleteMember(i, op)
    \/ \E c \in Callers, op \in Operations : Call(c, op)
    \/ \E c \in Callers : MapLoadOrStore(c)
    \/ \E c \in Callers : Lock(c)
    \/ \E c \in Callers : Incr(c)
    \/ \E c \in Callers : Store(c)
    \/ \E c \in Callers : Unlock(c)
    \/ \E op \in Operations, draw \in Draws : MatchRandom(op, draw)
    \/ \E e \in 1..2, op \in Operations : PairCall(e, op)
    \/ /\ cfg.kind = "tokens"
       /\ \E op \in Operations, transport \in BOOLEAN, header \in Headers :
             TokensRequest(op, transport, header)
    \/ /\ cfg.kind = "chaos"
       /\ \E op \in Operations, transport \in BOOLEAN, draw \in Draws :
             ChaosRequest(op, transport, draw)
    \/ /\ cfg.kind = "limits"
       /\ \E op \in Operations, transport \in BOOLEAN, keyOk \in BOOLEAN,
             key \in UniqueKeys, store \in StoreResults :
             LimitsRequest(op, transport, keyOk, key, store)
    \/ /\ cfg.kind = "simple"
       /\ \E op \in Operations, transport \in BOOLEAN, header \in SimpleHeaders :
             SimpleRequest(op, transport, header)

Spec == Init /\ [][Next]_vars

\* ---- the periodic match function under a fair scheduler
\* one operation in scope and one outside it; the period clamped and a
\* period that makes the counter wrap
FairConfigs ==
    {WithMatchFirst(NewConfig(NewInclude(<<"a/b/c">>), n), mf) :
        n \in {0, 2}, mf \in BOOLEAN}

InitFair == Init /\ cfg \in FairConfigs

NextPeriod ==
    \/ \E c \in Callers, op \in Operations : Call(c, op)
    \/ \E c \in Callers : MapLoadOrStore(c)
    \/ \E c \in Callers : Lock(c)
    \/ \E c \in Callers : Incr(c)
    \/ \E c \in Callers : Store(c)
    \/ \E c \in Callers : Unlock(c)

\* a goroutine that can take a step is scheduled in the end (no suspension
\* point but the mutex), and a goroutine waiting for a sync.Mutex that is
\* released again and again gets it in the end (the mutex hands over to a
\* waiter that has waited long: starvation mode)
FairSpec ==
    /\ InitFair
    /\ [][NextPeriod]_vars
    /\ \A c \in Callers :
          /\ WF_vars(MapLoadOrStore(c))
          /\ SF_vars(Lock(c))
          /\ WF_vars(Incr(c))
          /\ WF_vars(Store(c))
          /\ WF_vars(Unlock(c))

\* ------------------------------------------------------------- properties
\* membership of an operation in the configured scope, read off the fields
Members == {k \in DOMAIN cfg.routeScope.OperationSet : cfg.routeScope.OperationSet[k]}

InScope(op) ==
    \/ cfg.routeScope.Side = INCLUDE /\ op \in Members
    \/ cfg.routeScope.Side = EXCLUDE /\ op \notin Members

Returning(c) == pc[c] = "done"

Decided(c) == Returning(c) /\ rank[c] > 0

\* C1: with matchFirst = true and period N >= 1, the k-th decision taken for
\* an operation (the k-th call, when the calls are sequential) is a match
\* iff (k - 1) mod N = 0, and the call gets that decision as its result:
\* matches on calls 1, N+1, 2N+1, ...
C1_MatchFirstPattern ==
    (cfg.kind = "period" /\ cfg.matchFirst /\ cfg.n >= 1) =>
        /\ \A op \in Operations : \A k \in 1..Len(serial[op]) :
              serial[op][k].match = ((k - 1) % cfg.n = 0)
        /\ \A c \in Callers :
              Decided(c) => (ret[c] = ((rank[c] - 1) % cfg.n = 0))

C1_Witness ==
    /\ cfg.kind = "period" /\ cfg.matchFirst /\ cfg.n = 3
    /\ \E c \in Callers : Decided(c) /\ rank[c] = 4 /\ ret[c]
    /\ \E op \in Operations : Len(serial[op]) = 4 /\ results[op].calls = 4

\* C2: with matchFirst = false and period N >= 1, the k-th decision taken
\* for an operation is a match iff k mod N = 0: the first N-1 calls do not
\* match, calls N, 2N, 3N, ... do.
C2_NotFirstPattern ==
    (cfg.kind = "period" /\ ~cfg.matchFirst /\ cfg.n >= 1) =>
        /\ \A op \in Operations : \A k \in 1..Len(serial[op]) :
              serial[op][k].match = (k % cfg.n = 0)
        /\ \A c \in Callers :
              Decided(c) => (ret[c] = (rank[c] % cfg.n = 0))

C2_Witness ==
    /\ cfg.kind = "period" /\ ~cfg.matchFirst /\ cfg.n = 3
    /\ \E c \in Callers : Decided(c) /\ rank[c] = 3 /\ ret[c]
    /\ \E op \in Operations :
          /\ Len(serial[op]) = 5 /\ results[op].calls = 5 /\ results[op].trues = 1

\* C3: period 0 and period 1 give the same results: with either, every call
\* returns exactly whether its operation is in scope (every in-scope call
\* matches), every stored count stays 0, and no call takes a modulus by zero.
C3_PeriodZeroIsOne ==
    (cfg.kind = "period" /\ cfg.n <= 1) =>
        /\ \A c \in Callers : pc[c] # Panic
        /\ \A c \in Callers : Returning(c) => (ret[c] = InScope(operation[c]))
        /\ \A op \in Operations : \A k \in 1..Len(serial[op]) : serial[op][k].match
        /\ \A op \in Operations : \A p \in 1..Len(heap[op]) : heap[op][p].count = 0

C3_Witness ==
    /\ cfg.kind = "period" /\ cfg.n = 0
    /\ \E c \in Callers :
          /\ Decided(c) /\ loaded[c] /\ ret[c]
          /\ ~serial[operation[c]][rank[c]].free
          /\ results[operation[c]].trues >= 3

\* C4: a call for an operation the scope does not match never gets past the
\* scope check: the operation never has a record, a box or a decision, and
\* the step in which such a call returns leaves the map and every box
\* (counts and mutexes) as they were.
C4_ShortCircuit ==
    [][cfg.kind = "period" =>
          \A op \in Operations : ~InScope(op) =>
              /\ mp'[op] = Nil /\ heap'[op] = <<>> /\ serial'[op] = <<>>
              /\ \A c \in Callers :
                    (operation'[c] = op /\ pc'[c] # "idle") =>
                        (pc'[c] = "done" /\ ~ret'[c] /\ value'[c] = Nil)
              /\ results'[op] # results[op] =>
                    (mp' = mp /\ heap' = heap /\ serial' = serial)]_vars

C4_Witness ==
    /\ cfg.kind = "period"
    /\ \E op \in Operations, other \in Operations :
          /\ ~InScope(op) /\ results[op].calls >= 3 /\ mp[op] = Nil
          /\ InScope(other) /\ mp[other] # Nil
          /\ heap[other][mp[other]].count > 0
          /\ \E c \in Callers : operation[c] = other /\ pc[c] = "unlock"

\* C5: the result of a match function is scope.Match(op) AND the sampler's
\* decision: false for every operation outside the scope, the decision of
\* the periodic counter (resp. draw < rate) for every operation inside it.
C5_ScopeAndSampler ==
    /\ cfg.kind = "period" =>
          \A c \in Callers : Returning(c) =>
              ret[c] = (InScope(operation[c]) /\ rank[c] > 0
                        /\ serial[operation[c]][rank[c]].match)
    /\ (cfg.kind = "random" /\ rnd.calls > 0) =>
          rnd.ret = (InScope(rnd.operation) /\ rnd.draw < cfg.matchRate)

C5_Witness ==
    /\ cfg.kind = "random" /\ cfg.routeScope.Side = EXCLUDE /\ cfg.matchRate >= 10
    /\ rnd.calls > 0 /\ ~InScope(rnd.operation) /\ ~rnd.ret

\* the decisions an operation gets when it is the only one ever called:
\* the count after j increments, and the k-th decision
RECURSIVE SoloCount(_)
SoloCount(j) == IF j = 0 THEN 0 ELSE (SoloCount(j - 1) + 1) % Max(cfg.n, 1)

SoloDecision(k) ==
    IF cfg.matchFirst
    THEN IF k = 1 THEN [free |-> TRUE, match |-> TRUE]
         ELSE [free |-> FALSE, match |-> SoloCount(k - 1) = 0]
    ELSE [free |-> FALSE, match |-> SoloCount(k) = 0]

\* C6: identifiers are independent: a step changes the record, the box or
\* the decisions of an operation only when it is a step of a call for that
\* operation, and the decisions of an operation are those it gets when no
\* other operation is ever called (a first-arrival match of its own
\* included).
C6_Independent ==
    /\ [](cfg.kind = "period" =>
            \A op \in Operations : \A k \in 1..Len(serial[op]) :
                serial[op][k] = SoloDecision(k))
    /\ [][\A op \in Operations :
            (mp'[op] # mp[op] \/ heap'[op] # heap[op] \/ serial'[op] # serial[op]) =>
                \E c \in Callers :
                    /\ operation[c] = op /\ pc'[c] # pc[c]
                    /\ \A d \in Callers \ {c} : pc'[d] = pc[d]]_vars

C6_Witness ==
    /\ cfg.kind = "period" /\ cfg.matchFirst /\ cfg.n = 3
    /\ \E a \in Operations, b \in Operations :
          /\ a # b /\ mp[a] # Nil /\ mp[b] # Nil
          /\ Len(serial[a]) = 3 /\ Len(serial[b]) = 2
          /\ heap[a][mp[a]].count = 2 /\ heap[b][mp[b]].count = 1

\* C7: the first match is free: with matchFirst = true the decision that
\* creates the record is a match taken without an increment, it leaves the
\* count at 0, every later decision is an increment of the counter, and so
\* the count is (decisions - 1) mod max(N, 1).
C7_FirstMatchFree ==
    (cfg.kind = "period" /\ cfg.matchFirst) =>
        /\ \A op \in Operations : Len(serial[op]) >= 1 =>
              /\ serial[op][1] = [free |-> TRUE, match |-> TRUE]
              /\ \A k \in 2..Len(serial[op]) : ~serial[op][k].free
              /\ mp[op] # Nil
              /\ heap[op][mp[op]].count = (Len(serial[op]) - 1) % Max(cfg.n, 1)
        /\ \A c \in Callers : Decided(c) =>
              /\ rank[c] = 1 => (~loaded[c] /\ ret[c])
              /\ rank[c] > 1 => loaded[c]

C7_Witness ==
    /\ cfg.kind = "period" /\ cfg.matchFirst /\ cfg.n >= 2
    /\ \E c \in Callers :
          /\ Decided(c) /\ rank[c] = 1 /\ ~loaded[c] /\ ret[c]
          /\ Len(serial[operation[c]]) = 1
          /\ heap[operation[c]][value[c]].count = 0
          /\ \E d \in Callers : operation[d] = operation[c] /\ pc[d] = "lock"

PastLoad(c) == pc[c] \in {"lock", "incr", "store", "unlock"} \/ (Returning(c) /\ value[c] # Nil)

\* C8: load-or-create happens at most once per identifier: at most one box
\* is ever stored under an operation, every caller past LoadOrStore holds
\* that box, at most one of them saw loaded = false, and with matchFirst =
\* true exactly one decision per operation is the free first match.
C8_CreateOnce ==
    cfg.kind = "period" =>
        \A op \in Operations :
            /\ Len(heap[op]) <= 1
            /\ mp[op] = Len(heap[op])
            /\ \A c \in Callers : (PastLoad(c) /\ operation[c] = op) =>
                  (value[c] = 1 /\ mp[op] = 1)
            /\ Cardinality({c \in Callers :
                  PastLoad(c) /\ operation[c] = op /\ ~loaded[c]}) <= 1
            /\ Cardinality({k \in 1..Len(serial[op]) : serial[op][k].free})
                  = (IF cfg.matchFirst /\ mp[op] # Nil THEN 1 ELSE 0)

C8_Witness ==
    /\ cfg.kind = "period" /\ started = 2
    /\ \E c \in Callers, d \in Callers :
          /\ c # d /\ operation[c] = operation[d]
          /\ pc[c] = "lock" /\ pc[d] = "lock"
          /\ ~loaded[c] /\ loaded[d] /\ value[c] = value[d]

Quiescent(op) == \A c \in Callers : operation[c] = op => pc[c] \in {"idle", "done"}

\* C9: once all K calls made for an in-scope operation have returned, the
\* number of them that returned true is floor(K/N) or ceil(K/N), whatever
\* the interleaving (N >= 1).
C9_TrueCount ==
    (cfg.kind = "period" /\ cfg.n >= 1) =>
        \A op \in Operations : (InScope(op) /\ Quiescent(op)) =>
            LET K == results[op].calls
                T == results[op].trues
            IN  T = K \div cfg.n \/ T = (K + cfg.n - 1) \div cfg.n

C9_Witness ==
    /\ cfg.kind = "period" /\ cfg.n = 2
    /\ \E op \in Operations :
          /\ InScope(op) /\ Quiescent(op)
          /\ results[op].calls = 5 /\ results[op].trues = 3

\* C10: in the order in which the decisions for one operation are
\* serialized, every window of N consecutive decisions holds exactly one
\* match (N >= 1, both matchFirst settings), and each call returns the
\* decision taken at its place in that order.
C10_OnePerWindow ==
    (cfg.kind = "period" /\ cfg.n >= 1) =>
        /\ \A op \in Operations : \A i \in 1..(Len(serial[op]) - cfg.n + 1) :
              Cardinality({k \in i..(i + cfg.n - 1) : serial[op][k].match}) = 1
        /\ \A c \in Callers : Decided(c) =>
              ret[c] = serial[operation[c]][rank[c]].match

C10_Witness ==
    /\ cfg.kind = "period" /\ cfg.n = 3 /\ ~cfg.matchFirst
    /\ \E op \in Operations :
          /\ Len(serial[op]) = 4
          /\ \E c \in Callers : operation[c] = op /\ pc[c] = "unlock" /\ rank[c] = 4
          /\ \E d \in Callers : operation[d] = op /\ pc[d] = "lock"

InCritical(c) == pc[c] \in {"incr", "store", "unlock"}

\* C11: lock isolation: the mutex of a box is held only by a caller whose
\* call is for the operation of that box, so a caller waiting at Lock is
\* kept waiting only by a caller for its own operation; callers for
\* different operations never wait for one another.
C11_LockIsolation ==
    cfg.kind = "period" =>
        /\ \A op \in Operations : \A p \in 1..Len(heap[op]) :
              heap[op][p].mutex # Nil =>
                  /\ operation[heap[op][p].mutex] = op
                  /\ value[heap[op][p].mutex] = p
                  /\ InCritical(heap[op][p].mutex)
        /\ \A c \in Callers : pc[c] = "lock" =>
              \/ heap[operation[c]][value[c]].mutex = Nil
              \/ \E d \in Callers \ {c} : operation[d] = operation[c] /\ InCritical(d)
        /\ \A c \in Callers : InCritical(c) =>
              heap[operation[c]][value[c]].mutex = c

C11_Witness ==
    /\ cfg.kind = "period"
    /\ \E c \in Callers, d \in Callers :
          /\ operation[c] # operation[d]
          /\ pc[c] = "incr" /\ pc[d] = "unlock"
          /\ heap[operation[c]][value[c]].mutex = c
          /\ heap[operation[d]][value[d]].mutex = d

\* C12: no record is ever removed or replaced: once an operation has a
\* record, every later state has that same record under it and no other
\* box is ever stored for it.
C12_NeverRemoved ==
    [][cfg.kind = "period" =>
          \A op \in Operations : mp[op] # Nil =>
              /\ mp'[op] = mp[op]
              /\ Len(heap'[op]) = Len(heap[op])]_vars

C12_Witness ==
    /\ cfg.kind = "period"
    /\ \E op \in Operations :
          /\ mp[op] = 1 /\ Len(heap[op]) = 1
          /\ Len(serial[op]) = 4 /\ results[op].calls = 4

\* the scope at position i of the chain, read off its fields
SideAt(i) == objs[chain[i]].Side

MapAt(i) == Deref(maps, objs[chain[i]].OperationSet)

MembersAt(i) == {k \in DOMAIN MapAt(i) : MapAt(i)[k]}

RawMatch(i, op) ==
    \/ SideAt(i) = INCLUDE /\ op \in MembersAt(i)
    \/ SideAt(i) = EXCLUDE /\ op \notin MembersAt(i)

Unwritten(i) == i \notin written.scopes

Matched(i) == out.fn = "Match" /\ out.recv = i

\* C13: on a scope built by NewInclude(S...), Match(op) is true iff op is
\* among the arguments; on one built by NewExclude(S...), iff it is not.
C13_MatchMembership ==
    (cfg.kind = "scope" /\ Unwritten(1) /\ Matched(1)) =>
        /\ made.fn = "NewInclude" =>
              (~out.panicked /\ out.ret = (out.operation \in Range(made.operations)))
        /\ made.fn = "NewExclude" =>
              (~out.panicked /\ out.ret = (out.operation \notin Range(made.operations)))

C13_Witness ==
    /\ cfg.kind = "scope" /\ Unwritten(1) /\ Matched(1)
    /\ made = [fn |-> "NewExclude", operations |-> <<"x/y/z", "a/b/c">>]
    /\ out.operation = "a/b/c" /\ ~out.ret

\* C14: a scope whose member set is empty or nil matches no operation under
\* INCLUDE and every operation under EXCLUDE, and Match does not panic.
C14_EmptySet ==
    (cfg.kind = "scope" /\ out.fn = "Match") =>
        \A i \in 1..Len(chain) :
            (out.recv = i /\ DOMAIN MapAt(i) = {} /\ SideAt(i) \in {INCLUDE, EXCLUDE}) =>
                (~out.panicked /\ out.ret = (SideAt(i) = EXCLUDE))

C14_Witness ==
    /\ cfg.kind = "scope" /\ Matched(1)
    /\ objs[chain[1]].OperationSet = Nil /\ SideAt(1) = EXCLUDE
    /\ out.ret /\ ~out.panicked

Flipped(sd) == IF sd = INCLUDE THEN EXCLUDE ELSE INCLUDE

C17_OppositeIndependent ==
    [][(cfg.kind = "scope" /\ out'.fn \in {"Write", "Delete"}) =>
          \A i \in 1..Len(chain) : i # out'.recv =>
              /\ objs'[chain[i]] = objs[chain[i]]
              /\ Deref(maps', objs'[chain[i]].OperationSet) = MapAt(i)
              /\ \A op \in Queries :
                    Match(ScopeValue(objs', maps', chain[i]), op)
                        = Match(ScopeValue(objs, maps, chain[i]), op)]_vars

C17_Witness ==
    /\ cfg.kind = "scope" /\ Len(chain) = 2 /\ written = [scopes |-> {1, 2}, n |-> 2]
    /\ made = [fn |-> "NewInclude", operations |-> <<"a/b/c">>]
    /\ MembersAt(1) = {} /\ MembersAt(2) = {"a/b/c", "a/b/d"}

\* C18: the scope is read-only after construction: no call of Match, of
\* Opposite or of a match function built on the scope changes a struct or
\* a map that exists, nor the Config holding the scope.
C18_ReadOnly ==
    [][/\ cfg' = cfg
       /\ (cfg.kind = "scope" /\ out'.fn \in {"Match", "Opposite"}) =>
             /\ \A p \in 1..Len(objs) : objs'[p] = objs[p]
             /\ \A r \in 1..Len(maps) : maps'[r] = maps[r]]_vars

C18_Witness ==
    /\ cfg.kind = "scope" /\ written.n = 0 /\ Len(chain) = 3 /\ Matched(1)
    /\ ScopeValue(objs, maps, chain[1]) = cfg.routeScope
    /\ made.fn = "NewInclude" /\ MembersAt(1) = Operations

\* C19: SelectSide.Opposite maps INCLUDE to EXCLUDE and EXCLUDE to INCLUDE,
\* and twice applied it returns the side it started from.
C19_SideOpposite ==
    cfg.kind = "side" =>
        /\ \A k \in 1..(Len(sides) - 1) :
              /\ sides[k] = INCLUDE => sides[k + 1] = EXCLUDE
              /\ sides[k] = EXCLUDE => sides[k + 1] = INCLUDE
        /\ \A k \in 1..(Len(sides) - 2) : sides[k + 2] = sides[k]
        /\ (sides[1] \in {INCLUDE, EXCLUDE} /\ out.fn = "Side.Opposite") => ~out.panicked

C19_Witness ==
    /\ cfg.kind = "side" /\ Len(sides) = 3
    /\ sides[1] = EXCLUDE /\ sides[2] = INCLUDE /\ sides[3] = EXCLUDE

\* C20: an invalid side is fail-fast: on a side other than INCLUDE and
\* EXCLUDE, SelectSide.Opposite, RouteScope.Match and RouteScope.Opposite
\* panic and return nothing.
C20_InvalidSidePanics ==
    /\ cfg.kind = "side" =>
          \A k \in 1..Len(sides) : sides[k] \notin {INCLUDE, EXCLUDE} =>
              /\ k = Len(sides)
              /\ (out.fn = "Side.Opposite" /\ out.recv = k) => out.panicked
    /\ cfg.kind = "scope" =>
          \A i \in 1..Len(chain) : SideAt(i) \notin {INCLUDE, EXCLUDE} =>
              /\ i = Len(chain)
              /\ (out.fn \in {"Match", "Opposite"} /\ out.recv = i) =>
                    (out.panicked /\ ~out.ret)

C20_Witness ==
    /\ cfg.kind = "side" /\ sides = <<INVALID>>
    /\ out.fn = "Side.Opposite" /\ out.panicked

\* C21: every decision function is total: whatever the operation, the
\* period (0 included), the rate (outside [0,1] included) and matchFirst,
\* a call of the periodic or random match function, or of Match on a scope
\* of polarity INCLUDE or EXCLUDE, never panics and returns a boolean.
C21_Total ==
    /\ cfg.kind = "period" =>
          \A c \in Callers : pc[c] # Panic /\ ret[c] \in BOOLEAN
    /\ cfg.kind = "random" => (~rnd.panicked /\ rnd.ret \in BOOLEAN)
    /\ (cfg.kind = "scope" /\ out.fn = "Match") =>
          (SideAt(out.recv) \in {INCLUDE, EXCLUDE} =>
              (~out.panicked /\ out.ret \in BOOLEAN))

\* C21 as stated, with no condition on the scope: every call of a decision
\* function, Match on any scope included, returns a boolean and never panics.
C21_TotalAnyScope ==
    /\ cfg.kind = "period" =>
          \A c \in Callers : pc[c] # Panic /\ ret[c] \in BOOLEAN
    /\ cfg.kind = "random" => (~rnd.panicked /\ rnd.ret \in BOOLEAN)
    /\ (cfg.kind = "scope" /\ out.fn = "Match") =>
          (~out.panicked /\ out.ret \in BOOLEAN)

C21_Witness ==
    /\ cfg.kind = "period" /\ cfg.n = 0 /\ ~cfg.matchFirst
    /\ \E c \in Callers :
          /\ Decided(c) /\ ret[c] /\ ~serial[operation[c]][rank[c]].free
          /\ results[operation[c]].calls >= 2

\* C22: for an operation in scope the random match function returns exactly
\* draw < rate for its one draw in [0,1); the rate is not clamped: a rate of
\* 1 or more (10 tenths) gives true for every draw, a rate of 0 or less false.
C22_DrawBelowRate ==
    (cfg.kind = "random" /\ rnd.calls > 0 /\ InScope(rnd.operation)) =>
        /\ rnd.draw \in Draws
        /\ rnd.ret = (rnd.draw < cfg.matchRate)
        /\ cfg.matchRate >= 10 => rnd.ret
        /\ cfg.matchRate <= 0 => ~rnd.ret

C22_Witness ==
    /\ cfg.kind = "random" /\ cfg.matchRate = 15
    /\ rnd.calls > 0 /\ InScope(rnd.operation) /\ rnd.draw = 9 /\ rnd.ret

\* the k-th decision taken for an operation and the count stored after the
\* decisions in ds, computed from the period and matchFirst alone
PeriodicDecision(k) ==
    LET N == IF cfg.n = 0 THEN 1 ELSE cfg.n
    IN  IF cfg.matchFirst THEN (k - 1) % N = 0 ELSE k % N = 0

Increments(ds) == Cardinality({k \in 1..Len(ds) : ~ds[k].free})

\* C23: observability is a side channel: the result of every call and every
\* stored count are the values fixed by the scope, the sampler settings, the
\* order of the calls and the draws, whatever the debug mode and the span
\* name; a Config differing in those two only returns the same for the same
\* call and draw; with debug mode off nothing is logged, with a blank span
\* name no span is started.
C23_SideChannel ==
    /\ cfg.kind = "period" =>
          /\ \A c \in Callers : Returning(c) =>
                ret[c] = (InScope(operation[c]) /\ rank[c] > 0
                          /\ PeriodicDecision(rank[c]))
          /\ \A op \in Operations : mp[op] # Nil =>
                heap[op][mp[op]].count =
                    Increments(serial[op]) % (IF cfg.n = 0 THEN 1 ELSE cfg.n)
    /\ (cfg.kind = "random" /\ rnd.calls > 0) =>
          \A v \in ObsVariants(cfg) :
              LET r == RandomMatchFunc(v, rnd.operation, rnd.draw, NoObs)
              IN  r.ret = rnd.ret /\ r.panicked = rnd.panicked
    /\ cfg.kind \in {"period", "random"} =>
          /\ ~cfg.debugMode => obs.lines = 0
          /\ cfg.apmSpanName = "" => obs.spans = 0

C23_Witness ==
    /\ cfg.kind = "period" /\ cfg.debugMode /\ cfg.apmSpanName # ""
    /\ cfg.n = 3 /\ cfg.matchFirst
    /\ obs.lines = 5 /\ obs.spans = 5
    /\ \E c \in Callers : Decided(c) /\ rank[c] = 4 /\ ret[c]

\* a request the selector handed to the middleware: it carries a server
\* transport and its operation is in the configured scope
Served == mw.calls > 0

Guarded == Served /\ mw.res.ctx.transport /\ InScope(mw.operation)

\* the users for whom the header is their token in a format that is enabled
Owners(header) ==
    {u \in DOMAIN cfg.authTokens :
        \/ cfg.simpleEnable /\ header = cfg.authTokens[u]
        \/ cfg.bearerEnable /\ header = BearerPrefix \o cfg.authTokens[u]
        \/ cfg.base64Enable /\
              header = BasicPrefix \o EncodeToString(u \o Colon \o cfg.authTokens[u])}

\* C25 (amended): a non-empty request token is accepted iff it is, for some
\* configured user, the raw token with simple enabled, "Bearer " + token
\* with bearer enabled or "Basic " + base64(username:token) with base64
\* enabled; with no format enabled every token is rejected as UNAUTHORIZED;
\* the empty token is rejected whatever is configured.
C25_EnabledFormats ==
    (cfg.kind = "tokens" /\ Guarded) =>
        /\ mw.res.ctx.header # <<>> =>
              (mw.res.handled = (Owners(mw.res.ctx.header) # {}))
        /\ mw.res.ctx.header = <<>> => ~mw.res.handled
        /\ (~cfg.simpleEnable /\ ~cfg.bearerEnable /\ ~cfg.base64Enable) =>
              (~mw.res.handled /\ mw.res.err = Unauthorized("UNAUTHORIZED"))

\* C25 as stated: every request token, the empty one included, is accepted
\* iff it is a configured token in an enabled format.
C25_EnabledFormatsAnyToken ==
    (cfg.kind = "tokens" /\ Guarded) =>
        (mw.res.handled = (Owners(mw.res.ctx.header) # {}))

C25_Witness ==
    /\ cfg.kind = "tokens" /\ Guarded
    /\ ~cfg.simpleEnable /\ ~cfg.bearerEnable /\ cfg.base64Enable
    /\ cfg.authTokens = (<<97, 58>> :> <<120>>) @@ (<<97>> :> <<58, 120>>)
    /\ mw.res.ctx.header = BasicPrefix \o <<89, 84, 111, 54, 101, 65, 61, 61>>
    /\ mw.res.handled

\* C26: on an operation in scope, a missing (empty) token and a token that
\* matches no enabled format of any user give a 401 error with reason
\* UNAUTHORIZED and the handler is not invoked; a matching token invokes
\* the handler with a context from which GetUsername returns a user who
\* owns the token.
C26_TokenOutcome ==
    (cfg.kind = "tokens" /\ Guarded) =>
        LET header == mw.res.ctx.header
        IN  /\ (header = <<>> \/ Owners(header) = {}) =>
                  /\ ~mw.res.handled
                  /\ mw.res.err = [code |-> 401, reason |-> "UNAUTHORIZED"]
                  /\ ~GetUsername(mw.res.ctx).ok
            /\ (header # <<>> /\ Owners(header) # {}) =>
                  /\ mw.res.handled /\ mw.res.err = NoError
                  /\ GetUsername(mw.res.ctx).ok
                  /\ GetUsername(mw.res.ctx).username \in Owners(header)

C26_Witness ==
    /\ cfg.kind = "tokens" /\ Guarded
    /\ cfg.authTokens = (<<97>> :> <<120>>) @@ (<<98>> :> <<120>>)
    /\ cfg.simpleEnable /\ mw.res.ctx.header = <<120>>
    /\ mw.res.handled /\ GetUsername(mw.res.ctx) = [username |-> <<98>>, ok |-> TRUE]

\* C24: on an operation the scope matches, the chaos middleware rejects the
\* request with a 503 error of reason RANDOM_RATE_UNAVAILABLE, the handler
\* not invoked, iff the draw is not below the pass rate; otherwise the
\* handler is invoked with the request's context.  A pass rate of 1 or more
\* never blocks, a pass rate of 0 or less blocks every request in scope.
C24_ChaosBlock ==
    (cfg.kind = "chaos" /\ Guarded) =>
        /\ mw.res.handled = (mw.draw < cfg.rate)
        /\ ~mw.res.handled =>
              mw.res.err = [code |-> 503, reason |-> "RANDOM_RATE_UNAVAILABLE"]
        /\ mw.res.handled =>
              (mw.res.err = NoError
               /\ mw.res.ctx = NewContext(TRUE, <<>>, FALSE, <<>>))
        /\ cfg.rate >= 10 => mw.res.handled
        /\ cfg.rate <= 0 => ~mw.res.handled

C24_Witness ==
    /\ cfg.kind = "chaos" /\ Guarded /\ cfg.rate = 3 /\ mw.draw = 3
    /\ ~mw.res.handled /\ mw.res.err.code = 503

\* C27: on an operation the scope matches, the rate limit middleware invokes
\* the handler only when a non-empty unique key was extracted, the store
\* call returned no error and its result has Allowed > 0; a missing or empty
\* key, or Allowed <= 0, returns the limit-exceeded error (429), a store
\* error returns a 503 error, and in those cases the handler is not invoked.
C27_FailsClosed ==
    (cfg.kind = "limits" /\ Guarded) =>
        LET ctx == mw.res.ctx
            hasKey == ctx.keyOk /\ ctx.key # <<>>
        IN  /\ mw.res.handled =
                  (hasKey /\ ~mw.store.err /\ mw.store.allowed > 0)
            /\ ~hasKey =>
                  (~mw.res.handled /\ mw.res.err.code = 429
                   /\ mw.res.err = ErrLimitExceed)
            /\ (hasKey /\ mw.store.err) =>
                  (~mw.res.handled /\ mw.res.err.code = 503)
            /\ (hasKey /\ ~mw.store.err /\ mw.store.allowed <= 0) =>
                  (~mw.res.handled /\ mw.res.err.code = 429
                   /\ mw.res.err = ErrLimitExceed)
            /\ mw.res.handled => mw.res.err = NoError

C27_Witness ==
    /\ cfg.kind = "limits" /\ Guarded
    /\ mw.res.ctx.keyOk /\ mw.res.ctx.key = <<107>>
    /\ mw.store.err /\ ~mw.res.handled /\ mw.res.err.code = 503
    /\ mw.storeCalls = 2

\* C29: on an operation the scope matches, the simple auth middleware does
\* not call the check function for an empty token and returns a 401
\* UNAUTHORIZED error; an error of the check function is returned and the
\* handler is not invoked; the handler is invoked only after the check
\* function succeeded, and with the context the check function returned.
C29_SimpleOutcome ==
    (cfg.kind = "simple" /\ Guarded) =>
        LET header == mw.res.ctx.header
        IN  /\ header = <<>> =>
                  (~mw.res.guarded /\ ~mw.res.handled
                   /\ mw.res.err = [code |-> 401, reason |-> "UNAUTHORIZED"])
            /\ (header # <<>> /\ header \notin cfg.accepts) =>
                  (~mw.res.handled /\ mw.res.err = cfg.checkError)
            /\ mw.res.handled =>
                  (header # <<>> /\ header \in cfg.accepts /\ mw.res.guarded
                   /\ mw.res.err = NoError /\ mw.res.ctx.checkedBy = header)

C29_Witness ==
    /\ cfg.kind = "simple" /\ Guarded /\ mw.res.handled
    /\ mw.res.ctx.checkedBy = <<120>> /\ cfg.accepts = {<<>>, <<120>>}

\* C28: a request to a scope-gated middleware (token auth, simple auth, rate
\* limit, chaos block) for an operation the scope does not match reaches the
\* handler with its own context and no error, and the guarded behaviour is
\* not executed for it: no token check, no call of the limit store, no
\* random block.
C28_OutOfScope ==
    [][(mw'.calls = mw.calls + 1 /\ ~InScope(mw'.operation)) =>
          /\ mw'.res.handled
          /\ ~mw'.res.guarded
          /\ mw'.res.err = NoError
          /\ ~mw'.res.ctx.hasUsername
          /\ mw'.res.ctx.checkedBy = <<>>
          /\ mw'.storeCalls = mw.storeCalls]_vars

C28_Witness ==
    /\ cfg.kind = "limits" /\ mw.calls = 2 /\ ~InScope(mw.operation)
    /\ mw.res.ctx.transport /\ mw.res.ctx.keyOk /\ mw.res.ctx.key = <<107>>
    /\ mw.store.err /\ mw.res.handled /\ mw.storeCalls = 0

\* the calls for an operation that have been through the critical section
\* and returned: the calls returned, less the first arrival when it matched
\* without counting
CountingCalls(op) ==
    results[op].calls - (IF cfg.matchFirst /\ results[op].calls > 0 THEN 1 ELSE 0)

\* C31: no lost updates: whenever no caller is inside the critical section
\* of an operation's record, the count of the record is the number of
\* counting calls completed for the operation, mod max(N, 1), whatever the
\* interleaving; a counting call is an in-scope call other than the first
\* arrival under matchFirst = true.
C31_NoLostUpdates ==
    cfg.kind = "period" =>
        \A op \in Operations :
            (\A c \in Callers : operation[c] = op => ~InCritical(c)) =>
                \A p \in 1..Len(heap[op]) :
                    heap[op][p].count = CountingCalls(op) % Max(cfg.n, 1)

C31_Witness ==
    /\ cfg.kind = "period" /\ cfg.matchFirst /\ cfg.n = 3
    /\ \E op \in Operations :
          /\ Len(heap[op]) = 1 /\ heap[op][1].count = 2
          /\ results[op].calls = 3
          /\ \A c \in Callers : operation[c] = op /\ pc[c] = "lock"

\* C32: counter bound: in every reachable state the count of every record,
\* and the copy of it a caller holds, is at least 0 and less than max(N, 1),
\* so count + 1 is at most max(N, 1): at most the largest uint32, which a
\* 64-bit counter holds.
C32_CounterBound ==
    cfg.kind = "period" =>
        /\ \A op \in Operations : \A p \in 1..Len(heap[op]) :
              /\ 0 <= heap[op][p].count
              /\ heap[op][p].count < Max(cfg.n, 1)
              /\ heap[op][p].count + 1 <= Max(cfg.n, 1)
        /\ \A c \in Callers : 0 <= count[c] /\ count[c] < Max(cfg.n, 1)

C32_Witness ==
    /\ cfg.kind = "period" /\ ~cfg.matchFirst /\ cfg.n = 3
    /\ \E op \in Operations :
          /\ Len(serial[op]) = 3 /\ heap[op][1].count = 0
          /\ \E c \in Callers : operation[c] = op /\ pc[c] = "store" /\ count[c] = 1

\* the boxes whose mutex a caller holds
Held(c) ==
    {b \in UNION {{<<op, p>> : p \in 1..Len(heap[op])} : op \in Operations} :
        heap[b[1]][b[2]].mutex = c}

\* C33: every call of the periodic match function terminates and leaves no
\* lock held: a caller holds at most one mutex, that of the record of its
\* own operation, and only inside the critical section, so none when it has
\* returned; a mutex is acquired only by the Lock step, which the out-of-scope
\* and first-arrival paths do not reach; and under fair scheduling every
\* caller that has entered the function returns.
C33_Terminates ==
    /\ [](\A c \in Callers :
            /\ Cardinality(Held(c)) <= 1
            /\ Held(c) \subseteq {<<operation[c], value[c]>>}
            /\ ~InCritical(c) => Held(c) = {}
            /\ pc[c] \in {"lock", "incr", "store", "unlock"} =>
                  (InScope(operation[c]) /\ (loaded[c] \/ ~cfg.matchFirst))
            /\ pc[c] # Panic)
    /\ [][\A c \in Callers :
            Held(c)' # Held(c) =>
                \/ pc[c] = "lock" /\ pc'[c] = "incr"
                \/ pc[c] = "unlock" /\ pc'[c] = "done"]_vars
    /\ \A c \in Callers : (pc[c] \notin {"idle", "done"}) ~> (pc[c] = "done")

C33_Witness ==
    /\ cfg.matchFirst /\ cfg.n = 2
    /\ \E c \in Callers, d \in Callers :
          /\ c # d /\ operation[c] = operation[d]
          /\ pc[c] = "done" /\ value[c] # Nil /\ loaded[c] /\ Held(c) = {}
          /\ results[operation[c]].calls = 3
          /\ pc[d] = "store" /\ Held(d) = {<<operation[d], value[d]>>}

\* the results match function e of the pair returned for an operation
Hist(e, op) == fns.hist[e][op]

\* C34: with matchFirst = true, after the first call for an operation in
\* scope the match function behaves like a fresh matchFirst = false match
\* function with the same period: its results are true followed by the
\* results of the matchFirst = false function, call for call.
C34_FirstThenSame ==
    (/\ cfg.kind = "pair"
     /\ cfg.configs[1].matchFirst /\ ~cfg.configs[2].matchFirst) =>
        \A op \in Operations : InScope(op) =>
            /\ Len(Hist(1, op)) >= 1 => Hist(1, op)[1]
            /\ \A k \in 1..Len(Hist(2, op)) :
                  k + 1 <= Len(Hist(1, op)) => Hist(1, op)[k + 1] = Hist(2, op)[k]

C34_Witness ==
    /\ cfg.kind = "pair" /\ cfg.configs[1].n = 2
    /\ cfg.configs[1].matchFirst /\ ~cfg.configs[2].matchFirst
    /\ \E op \in Operations :
          /\ InScope(op)
          /\ Hist(1, op) = <<TRUE, FALSE, TRUE>> /\ Hist(2, op) = <<FALSE, TRUE>>

\* the store match function e of the pair holds
StoreOf(e) == fns.stores[fns.store[e]]

\* the k-th result of a match function of Config c called for one operation
\* in scope, whatever else is called
OwnResult(c, k) ==
    IF c.matchFirst THEN (k - 1) % Max(c.n, 1) = 0 ELSE k % Max(c.n, 1) = 0

\* C35: each NewMatchFunc call creates its own counter store: two match
\* functions built by separate calls, from equal Configs too, hold different
\* stores, and the record, the count and the results of each for an
\* operation are those fixed by the calls made on that one alone, so calls
\* on one never change the counts, the first-arrival status or the results
\* of the other.
C35_OwnStore ==
    cfg.kind = "pair" =>
        /\ fns.store[1] # fns.store[2]
        /\ \A e \in 1..2 : \A op \in Operations :
              LET c == cfg.configs[e]
                  K == Len(Hist(e, op))
              IN  /\ (StoreOf(e).mp[op] # Nil) = (InScope(op) /\ K > 0)
                  /\ StoreOf(e).mp[op] # Nil =>
                        StoreOf(e).heap[op][StoreOf(e).mp[op]].count
                            = (K - (IF c.matchFirst THEN 1 ELSE 0)) % Max(c.n, 1)
                  /\ \A k \in 1..K :
                        Hist(e, op)[k] = (InScope(op) /\ OwnResult(c, k))

C35_Witness ==
    /\ cfg.kind = "pair" /\ cfg.configs[1] = cfg.configs[2]
    /\ cfg.configs[1].n = 3 /\ cfg.configs[1].matchFirst
    /\ \E op \in Operations :
          /\ Len(Hist(1, op)) = 3 /\ Len(Hist(2, op)) = 1
          /\ StoreOf(1).heap[op][1].count = 2 /\ StoreOf(2).heap[op][1].count = 0
          /\ Hist(2, op) = <<TRUE>>

\* C36: every scope reached through NewInclude or NewExclude and any number
\* of Opposite calls has the side INCLUDE or EXCLUDE, so no call of Match or
\* Opposite on such a scope panics.
C36_ValidSide ==
    (cfg.kind = "scope" /\ made.fn \in {"NewInclude", "NewExclude"}) =>
        /\ \A i \in 1..Len(chain) : SideAt(i) \in {INCLUDE, EXCLUDE}
        /\ out.fn \in {"Match", "Opposite"} => ~out.panicked

C36_Witness ==
    /\ cfg.kind = "scope" /\ made.fn = "NewExclude" /\ Len(chain) = 3
    /\ SideAt(1) = EXCLUDE /\ SideAt(2) = INCLUDE /\ SideAt(3) = EXCLUDE
    /\ out.fn = "Match" /\ out.recv = 3 /\ ~out.panicked /\ out.ret

\* the argument lists with the same elements as l: l reordered, and l with
\* elements repeated
SameElements(l) ==
    {l2 \in UNION {[1..n -> Operations] : n \in 0..(Len(l) + 1)} :
        Range(l2) = Range(l)}

\* what the constructor named fn builds from the argument list l
Built(fn, l) == IF fn = "NewInclude" THEN NewInclude(l) ELSE NewExclude(l)

\* C37: a scope depends only on the set of operations its constructor got:
\* the same constructor called with the arguments reordered, or with an
\* argument repeated, builds a scope with the same side and the same member
\* set, whose Match returns the same for every operation.
C37_ArgumentSet ==
    (/\ cfg.kind = "scope" /\ made.fn \in {"NewInclude", "NewExclude"}
     /\ Unwritten(1)) =>
        /\ MembersAt(1) = Range(made.operations)
        /\ \A l2 \in SameElements(made.operations) :
              LET other == Built(made.fn, l2)
              IN  /\ other.Side = SideAt(1)
                  /\ {k \in DOMAIN other.OperationSet : other.OperationSet[k]}
                        = MembersAt(1)
                  /\ \A q \in Queries : Match(other, q) = RawMatch(1, q)
        /\ Matched(1) => out.ret = RawMatch(1, out.operation)

C37_Witness ==
    /\ cfg.kind = "scope" /\ made.fn = "NewInclude" /\ Unwritten(1)
    /\ made.operations = <<"x/y/z", "a/b/c">>
    /\ <<"a/b/c", "x/y/z", "a/b/c">> \in SameElements(made.operations)
    /\ Matched(1) /\ out.operation = "x/y/z" /\ out.ret

\* C38: a periodic Config as NewConfig(scope, n) returns it, WithMatchFirst
\* not called, has matchFirst = true: the first call in scope for each
\* operation matches without counting, and the matches fall on the decisions
\* 1, n+1, 2n+1, ... and not on n, 2n, ... (n >= 2).
C38_DefaultMatchFirst ==
    (cfg.kind = "period" /\ cfg = NewConfig(cfg.routeScope, cfg.n)) =>
        /\ cfg.matchFirst
        /\ \A op \in Operations : \A k \in 1..Len(serial[op]) :
              /\ k = 1 => serial[op][k] = [free |-> TRUE, match |-> TRUE]
              /\ cfg.n >= 1 =>
                    (serial[op][k].match = (\E j \in 0..MaxCalls : k = j * cfg.n + 1))
              /\ (cfg.n >= 2 /\ k % cfg.n = 0) => ~serial[op][k].match
        /\ \A c \in Callers : (Decided(c) /\ rank[c] = 1) => ret[c]

C38_Witness ==
    /\ cfg.kind = "period" /\ cfg.n = 2
    /\ cfg = NewConfig(cfg.routeScope, 2)
    /\ \E op \in Operations :
          /\ Len(serial[op]) = 4
          /\ results[op] = [calls |-> 4, trues |-> 2]
          /\ serial[op][3].match /\ ~serial[op][2].match /\ ~serial[op][4].match

====
